---- MODULE Spec2Model ----
(***************************************************************************)
(* A model of two pieces of torch_tensorrt:                                *)
(*   - Device.__init__ / Device._parse_device_str   (_Device.py)           *)
(*   - compile / lower_model_using_trt_splitter / _compile_graph           *)
(*                                                    (dynamo/compile.py)  *)
(* Python strings are sequences of one-character strings, so that lower(), *)
(* split(":") and int() are computed, not assumed.                         *)
(***************************************************************************)
EXTENDS Integers, Sequences, FiniteSets, TLC

VARIABLES
    \* ---- Device(*args, **kwargs) ----
    args,       \* the positional arguments of the call
    kwargs,     \* the keyword arguments of the call (Absent = key not given)
    self,       \* the fields of the object under construction
    dlog,       \* what logging.log was called with, in order
    exc,        \* the exception __init__ raised, "none" if it returned
    dev,        \* <<self>> once the constructor returned, <<>> otherwise
    dpc,        \* "call" before __init__ ran, "done" after
    \* ---- compile(gm, inputs, **options) ----
    enabled_precisions,            \* set(enabled_precisions)
    pass_through_build_failures,   \* the option of that name
    min_block_size,                \* the option of that name
    require_full_compilation,      \* the option of that name
    use_capability_partitioner,    \* kwargs.get("use_capability_partitioner")
    precision,                     \* the local of compile, "unset" until assigned
    settings,                      \* <<the CompilationSettings built>>, <<>> before
    clog,                          \* the logger's records, in order
    split_result,                  \* the SplitResult, NoSplit before the splitter ran
    original,                      \* the split module as the splitter returned it
    splits,                        \* how often the splitter was run
    it,                            \* position of _compile_graph's loop in submodule_inputs
    calls,                         \* the invocations of convert_module, in order
    module_calls,                  \* the settings handed to _compile_module, in order
    failed_at,                     \* position of the submodule convert_module failed on, 0 if none
    raised,                        \* the exception that left compile, "none" if none
    ret,                           \* what compile returned, "none" if nothing
    cpc                            \* where compile is

dvars == <<args, kwargs, self, dlog, exc, dev, dpc>>

opts == <<enabled_precisions, pass_through_build_failures, min_block_size,
          require_full_compilation, use_capability_partitioner>>

cvars == <<enabled_precisions, pass_through_build_failures, min_block_size,
           require_full_compilation, use_capability_partitioner, precision, settings,
           clog, split_result, original, splits, it, calls, module_calls, failed_at,
           raised, ret, cpc>>

vars == <<dvars, cvars>>

----------------------------------------------------------------------------
(* Bounds of the Device inputs *)

\* longest text that follows the device prefix in a positional string
MaxTail == 4
\* largest id given through the gpu_id / dla_core keywords
MaxId == 2

----------------------------------------------------------------------------
(* Python values *)

Str(s)   == [t |-> "str",    s |-> s,    n |-> 0, b |-> FALSE]
IntV(n)  == [t |-> "int",    s |-> <<>>, n |-> n, b |-> FALSE]
BoolV(b) == [t |-> "bool",   s |-> <<>>, n |-> 0, b |-> b]
Absent   == [t |-> "absent", s |-> <<>>, n |-> 0, b |-> FALSE]

\* "key" in kwargs
Has(kw, key) == kw[key].t # "absent"

\* isinstance(v, str), isinstance(v, bool)
IsStr(v)  == v.t = "str"
IsBool(v) == v.t = "bool"

----------------------------------------------------------------------------
(* str.lower, str.split(":"), int(str) *)

Digits == {"0", "1", "2", "3", "4", "5", "6", "7", "8", "9"}
Whitespace == {" "}

LowerChar(c) ==
    CASE c = "G" -> "g" [] c = "P" -> "p" [] c = "U" -> "u"
      [] c = "C" -> "c" [] c = "D" -> "d" [] c = "A" -> "a"
      [] c = "L" -> "l" [] c = "T" -> "t" [] c = "X" -> "x"
      [] OTHER -> c

Lower(s) == [i \in 1..Len(s) |-> LowerChar(s[i])]

\* index of the first ":" of s, 0 if there is none
FirstColon(s) ==
    IF \E i \in 1..Len(s) : s[i] = ":"
    THEN CHOOSE i \in 1..Len(s) : s[i] = ":" /\ \A j \in 1..(i-1) : s[j] # ":"
    ELSE 0

RECURSIVE Split(_)
Split(s) ==
    LET i == FirstColon(s) IN
    IF i = 0 THEN <<s>>
    ELSE <<SubSeq(s, 1, i-1)>> \o Split(SubSeq(s, i+1, Len(s)))

RECURSIVE LStrip(_)
LStrip(s) == IF s # <<>> /\ Head(s) \in Whitespace THEN LStrip(Tail(s)) ELSE s

RECURSIVE RStrip(_)
RStrip(s) ==
    IF s # <<>> /\ s[Len(s)] \in Whitespace THEN RStrip(SubSeq(s, 1, Len(s)-1)) ELSE s

Strip(s) == RStrip(LStrip(s))

\* the digits part of an int literal: digits, single underscores between digits
IsDigitRun(d) ==
    /\ d # <<>>
    /\ \A i \in 1..Len(d) : d[i] \in Digits \cup {"_"}
    /\ d[1] \in Digits /\ d[Len(d)] \in Digits
    /\ \A i \in 1..(Len(d)-1) : ~(d[i] = "_" /\ d[i+1] = "_")

DigitVal(c) ==
    CASE c = "0" -> 0 [] c = "1" -> 1 [] c = "2" -> 2 [] c = "3" -> 3
      [] c = "4" -> 4 [] c = "5" -> 5 [] c = "6" -> 6 [] c = "7" -> 7
      [] c = "8" -> 8 [] c = "9" -> 9

RECURSIVE RunVal(_)
RunVal(d) ==
    IF d = <<>> THEN 0
    ELSE IF d[Len(d)] = "_" THEN RunVal(SubSeq(d, 1, Len(d)-1))
    ELSE 10 * RunVal(SubSeq(d, 1, Len(d)-1)) + DigitVal(d[Len(d)])

\* int(s): [ok |-> the literal parses, val |-> its value]
PyInt(s) ==
    LET u      == Strip(s)
        signed == u # <<>> /\ Head(u) \in {"+", "-"}
        body   == IF signed THEN Tail(u) ELSE u
    IN  IF IsDigitRun(body)
        THEN [ok |-> TRUE,
              val |-> IF signed /\ Head(u) = "-" THEN 0 - RunVal(body) ELSE RunVal(body)]
        ELSE [ok |-> FALSE, val |-> 0]

----------------------------------------------------------------------------
(* Device._parse_device_str *)

Gpu  == <<"g", "p", "u">>
Cuda == <<"c", "u", "d", "a">>
Dla  == <<"d", "l", "a">>

ParseOk(ty, id) == [exc |-> "none", device_type |-> ty, id |-> id]
ParseRaise(e)   == [exc |-> e, device_type |-> "None", id |-> 0]

\* spec[1] followed by int(): IndexError when the string holds no ":"
ParseId(spec, ty) ==
    IF Len(spec) < 2 THEN ParseRaise("IndexError")
    ELSE IF PyInt(spec[2]).ok THEN ParseOk(ty, PyInt(spec[2]).val)
    ELSE ParseRaise("ValueError")

\* _parse_device_str without the "cuda" alias
ParseDeviceStrNoAlias(s) ==
    LET spec == Split(Lower(s)) IN
    IF spec[1] = Gpu THEN ParseId(spec, "GPU")
    ELSE IF spec[1] = Dla THEN ParseId(spec, "DLA")
    ELSE ParseRaise("ValueError")

_parse_device_str(s) ==
    LET spec == Split(Lower(s)) IN
    IF spec[1] = Gpu \/ spec[1] = Cuda THEN ParseId(spec, "GPU")
    ELSE IF spec[1] = Dla THEN ParseId(spec, "DLA")
    ELSE ParseRaise("ValueError")

----------------------------------------------------------------------------
(* Device.__init__ *)

WarnGpu0 == "Setting GPU id to 0 for device because device 0 manages DLA on Xavier"

\* the class attributes an instance starts from
ClassDefaults ==
    [device_type |-> "None", gpu_id |-> -1, dla_core |-> -1, allow_gpu_fallback |-> FALSE]

Running(o, l) == [self |-> o, log |-> l, exc |-> "none"]
Raise(o, l, e) == [self |-> o, log |-> l, exc |-> e]

\* len(args) == 1 and the argument is a string
PositionalStr(o, s, kw) ==
    LET p == _parse_device_str(s) IN
    IF p.exc # "none" THEN Raise(o, <<>>, p.exc)
    ELSE IF p.device_type = "GPU"
         THEN Running([o EXCEPT !.device_type = "GPU", !.gpu_id = p.id], <<>>)
         ELSE Running([o EXCEPT !.device_type = "DLA", !.dla_core = p.id, !.gpu_id = 0],
                      <<WarnGpu0>>)

\* Keywords in which dla_core always overrides gpu_id with 0, as the docstring
\* of gpu_id words it
KeywordsOverride(o, kw) ==
    IF Has(kw, "gpu_id") \/ Has(kw, "dla_core")
    THEN IF Has(kw, "dla_core")
         THEN Running([o EXCEPT !.device_type = "DLA",
                                !.dla_core = kw["dla_core"].n,
                                !.gpu_id = 0], <<WarnGpu0>>)
         ELSE Running([o EXCEPT !.gpu_id = kw["gpu_id"].n, !.device_type = "GPU"], <<>>)
    ELSE Raise(o, <<>>, "ValueError")

\* len(args) == 0
Keywords(o, kw) ==
    IF Has(kw, "gpu_id") \/ Has(kw, "dla_core")
    THEN IF Has(kw, "dla_core")
         THEN IF Has(kw, "gpu_id")
              THEN Running([o EXCEPT !.device_type = "DLA",
                                     !.dla_core = kw["dla_core"].n,
                                     !.gpu_id = kw["gpu_id"].n], <<>>)
              ELSE Running([o EXCEPT !.device_type = "DLA",
                                     !.dla_core = kw["dla_core"].n,
                                     !.gpu_id = 0], <<WarnGpu0>>)
         ELSE Running([o EXCEPT !.gpu_id = kw["gpu_id"].n, !.device_type = "GPU"], <<>>)
    ELSE Raise(o, <<>>, "ValueError")

\* the dispatch on len(args)
Dispatch(o, a, kw) ==
    IF Len(a) = 1
    THEN IF ~IsStr(a[1]) THEN Raise(o, <<>>, "TypeError")
         ELSE PositionalStr(o, a[1].s, kw)
    ELSE IF Len(a) = 0 THEN Keywords(o, kw)
    ELSE Raise(o, <<>>, "ValueError")

\* AllowFallback without the isinstance test: the value's truth is stored
AllowFallbackUnchecked(r, kw) ==
    IF r.exc # "none" THEN r
    ELSE IF Has(kw, "allow_gpu_fallback")
         THEN Running([r.self EXCEPT !.allow_gpu_fallback =
                          (kw["allow_gpu_fallback"].b \/ kw["allow_gpu_fallback"].n # 0)],
                      r.log)
         ELSE r

\* the trailing allow_gpu_fallback block
AllowFallback(r, kw) ==
    IF r.exc # "none" THEN r
    ELSE IF Has(kw, "allow_gpu_fallback")
         THEN IF ~IsBool(kw["allow_gpu_fallback"]) THEN Raise(r.self, r.log, "TypeError")
              ELSE Running([r.self EXCEPT !.allow_gpu_fallback = kw["allow_gpu_fallback"].b],
                           r.log)
         ELSE r

DeviceInit(a, kw) == AllowFallback(Dispatch(ClassDefaults, a, kw), kw)

----------------------------------------------------------------------------
(* Bounds of the compile inputs *)

\* most nodes in the lowered graph
MaxNodes == 4
\* largest min_block_size tried
MaxBlockSize == 3
\* most members of enabled_precisions
MaxPrecisions == 2
\* most submodules of a SplitResult handed to _compile_graph directly
MaxSubmodules == 3

----------------------------------------------------------------------------
(* compile: precision resolution and the settings *)

Float16 == "torch.float16"
Half    == "torch_tensorrt.dtype.half"
Float32 == "torch.float32"
Float   == "torch_tensorrt.dtype.float"
Int8    == "torch.int8"

Dtypes == {Float16, Half, Float32, Float, Int8}

\* the default imported from torch_tensorrt.dynamo._defaults
PRECISION == "_defaults.PRECISION"

ExperimentalWarning == [level |-> "warning", msg |-> "The Dynamo backend is an experimental feature"]
DefaultingInfo      == [level |-> "info", msg |-> "No precision specified, defaulting"]

\* ResolvePrecision with the float32 test put before the float16 test
ResolvePrecisionFullFirst(ep) ==
    IF Float32 \in ep \/ Float \in ep
    THEN [ok |-> TRUE, precision |-> Float32, log |-> <<>>]
    ELSE IF Float16 \in ep \/ Half \in ep
    THEN [ok |-> TRUE, precision |-> Float16, log |-> <<>>]
    ELSE IF Cardinality(ep) = 0
    THEN [ok |-> TRUE, precision |-> PRECISION, log |-> <<DefaultingInfo>>]
    ELSE [ok |-> FALSE, precision |-> "unset", log |-> <<>>]

\* the if / elif / elif / else over enabled_precisions
ResolvePrecision(ep) ==
    IF Float16 \in ep \/ Half \in ep
    THEN [ok |-> TRUE, precision |-> Float16, log |-> <<>>]
    ELSE IF Float32 \in ep \/ Float \in ep
    THEN [ok |-> TRUE, precision |-> Float32, log |-> <<>>]
    ELSE IF Cardinality(ep) = 0
    THEN [ok |-> TRUE, precision |-> PRECISION, log |-> <<DefaultingInfo>>]
    ELSE [ok |-> FALSE, precision |-> "unset", log |-> <<>>]

\* AfterPrecision without the final else: raise
AfterPrecisionNoRaise(r) == "lower"

\* where compile goes after the precision chain: on, or out with the ValueError
AfterPrecision(r) == IF r.ok THEN "lower" ELSE "raised"

\* CompilationSettings(**compilation_options), the fields that vary here
CompilationSettings(prec, mbs, ptbf) ==
    [precision |-> prec, min_block_size |-> mbs, pass_through_build_failures |-> ptbf]

----------------------------------------------------------------------------
(* TRTSplitter: the partition of the lowered graph into submodules *)

AccPrefix    == "_run_on_acc_"
NonAccPrefix == "_run_on_gpu_"

\* a graph is the sequence of its nodes' verdicts (TRUE = supported)
Graphs == UNION { [1..n -> BOOLEAN] : n \in 0..MaxNodes }

\* the maximal runs of equal verdict, as <<[acc, size]>>
RECURSIVE Runs(_)
Runs(g) ==
    IF g = <<>> THEN <<>>
    ELSE LET rest == Runs(Tail(g)) IN
         IF rest # <<>> /\ rest[1].acc = Head(g)
         THEN <<[acc |-> Head(g), size |-> rest[1].size + 1]>> \o Tail(rest)
         ELSE <<[acc |-> Head(g), size |-> 1]>> \o rest

\* supported runs below the minimum size become fallback
Relabel(rs, min_acc_module_size) ==
    [k \in 1..Len(rs) |->
        IF rs[k].acc /\ rs[k].size < min_acc_module_size
        THEN [acc |-> FALSE, size |-> rs[k].size] ELSE rs[k]]

\* adjacent runs of one label are one run
RECURSIVE Merge(_)
Merge(rs) ==
    IF Len(rs) < 2 THEN rs
    ELSE LET rest == Merge(Tail(rs)) IN
         IF rest[1].acc = rs[1].acc
         THEN <<[acc |-> rs[1].acc, size |-> rs[1].size + rest[1].size]>> \o Tail(rest)
         ELSE <<rs[1]>> \o rest

SubmodName(acc, k) == [prefix |-> IF acc THEN AccPrefix ELSE NonAccPrefix, idx |-> k - 1]

\* a submodule of the split module: the fx graph module the splitter made, or
\* the TensorRT module that took its place
FxModule(name, size)  == [kind |-> "fx", of |-> name, size |-> size, built_with |-> <<>>]
TrtModule(name, size, s) == [kind |-> "trt", of |-> name, size |-> size, built_with |-> <<s>>]

NoSplit == [split_module |-> <<>>, submodule_inputs |-> <<>>, non_acc_submodule_prefix |-> ""]

\* the SplitResult of a sequence of partitions: one submodule per partition,
\* and an entry of submodule_inputs for every submodule
SplitResult(ps) ==
    [split_module |->
        [k \in 1..Len(ps) |->
            [name |-> SubmodName(ps[k].acc, k),
             obj  |-> FxModule(SubmodName(ps[k].acc, k), ps[k].size)]],
     submodule_inputs |-> [k \in 1..Len(ps) |-> SubmodName(ps[k].acc, k)],
     non_acc_submodule_prefix |-> NonAccPrefix]

\* splitter.generate_split_results()
GenerateSplitResults(g, min_acc_module_size) ==
    SplitResult(Merge(Relabel(Runs(g), min_acc_module_size)))

\* splitter_setting.min_acc_module_size as lower_model_using_trt_splitter sets it
MinAccModuleSize(mbs) == 1

\* lower_model_using_trt_splitter, on the graph lower_model returned
lower_model_using_trt_splitter(lowered, mbs) ==
    GenerateSplitResults(lowered, MinAccModuleSize(mbs))

----------------------------------------------------------------------------
(* _compile_graph *)

\* submod_name.startswith(prefix), for names made of a prefix and an index
StartsWith(name, prefix) == name.prefix = prefix

\* IsAcc without the prefix test: every submodule is lowered
IsAccAlways(name, sr) == TRUE

\* the test that guards the lowering of a submodule
IsAcc(name, sr) == ~StartsWith(name, sr.non_acc_submodule_prefix)

\* getattr(split_result.split_module, name)
GetAttr(sm, name) == (CHOOSE k \in 1..Len(sm) : sm[k].name = name)

\* SetAttr that stores nothing
SetAttrDropped(sm, name, obj) == sm

\* setattr(split_result.split_module, name, obj)
SetAttr(sm, name, obj) ==
    [k \in 1..Len(sm) |-> IF sm[k].name = name THEN [sm[k] EXCEPT !.obj = obj] ELSE sm[k]]

\* the settings keyword convert_module is called with
SettingsArg(s) == s

\* one invocation of convert_module, as recorded
Invocation(name, submod, s) == [name |-> name, size |-> submod.size, settings |-> s]

----------------------------------------------------------------------------
(* compile as a state machine *)

PrecisionSets == { s \in SUBSET Dtypes : Cardinality(s) <= MaxPrecisions }

IdleDevice ==
    /\ args = <<>>
    /\ kwargs = [k \in {"gpu_id", "dla_core", "allow_gpu_fallback"} |-> Absent]
    /\ self = ClassDefaults
    /\ dlog = <<>>
    /\ exc = "none"
    /\ dev = <<>>
    /\ dpc = "idle"

Init ==
    /\ IdleDevice
    /\ enabled_precisions \in PrecisionSets
    /\ pass_through_build_failures \in BOOLEAN
    /\ min_block_size \in 1..MaxBlockSize
    /\ require_full_compilation \in BOOLEAN
    /\ use_capability_partitioner \in BOOLEAN
    /\ precision = "unset"
    /\ settings = <<>>
    /\ clog = <<>>
    /\ split_result = NoSplit
    /\ original = <<>>
    /\ splits = 0
    /\ it = 0
    /\ calls = <<>>
    /\ module_calls = <<>>
    /\ failed_at = 0
    /\ raised = "none"
    /\ ret = "none"
    /\ cpc = "call"

\* compile, up to and including settings = CompilationSettings(...)
BuildSettings ==
    /\ cpc = "call"
    /\ LET r == ResolvePrecision(enabled_precisions) IN
        /\ clog' = <<ExperimentalWarning>> \o r.log
        /\ precision' = r.precision
        /\ cpc' = AfterPrecision(r)
        /\ IF AfterPrecision(r) = "raised"
           THEN raised' = "ValueError" /\ settings' = <<>>
           ELSE /\ raised' = "none"
                /\ settings' = <<CompilationSettings(r.precision, min_block_size,
                                                     pass_through_build_failures)>>
    /\ UNCHANGED <<dvars, opts, split_result, original, splits, it, calls, module_calls,
                   failed_at, ret>>

\* the use_capability_partitioner branch: _compile_module returns a module
CompileModuleReturns ==
    /\ cpc = "lower"
    /\ use_capability_partitioner
    /\ module_calls' = Append(module_calls, settings)
    /\ ret' = "_compile_module"
    /\ cpc' = "returned"
    /\ UNCHANGED <<dvars, opts, precision, settings, clog, split_result, original, splits,
                   it, calls, failed_at, raised>>

\* the use_capability_partitioner branch: _compile_module raises
CompileModuleRaises ==
    /\ cpc = "lower"
    /\ use_capability_partitioner
    /\ module_calls' = Append(module_calls, settings)
    /\ raised' = "CompileModuleError"
    /\ cpc' = "raised"
    /\ UNCHANGED <<dvars, opts, precision, settings, clog, split_result, original, splits,
                   it, calls, failed_at, ret>>

\* split_result = lower_model_using_trt_splitter(gm, torch_inputs)
LowerAndSplit ==
    /\ cpc = "lower"
    /\ ~use_capability_partitioner
    /\ \E lowered \in Graphs :
        LET sr == lower_model_using_trt_splitter(lowered, min_block_size) IN
        /\ split_result' = sr
        /\ original' = sr.split_module
    /\ splits' = splits + 1
    /\ it' = 1
    /\ cpc' = "graph"
    /\ UNCHANGED <<dvars, opts, precision, settings, clog, calls, module_calls, failed_at,
                   raised, ret>>

AtSubmodule == cpc = "graph" /\ it <= Len(split_result.submodule_inputs)

CurrentName == split_result.submodule_inputs[it]

CurrentSubmod == split_result.split_module[GetAttr(split_result.split_module, CurrentName)].obj

\* a loop iteration on a submodule that is not lowered
SkipSubmodule ==
    /\ AtSubmodule
    /\ ~IsAcc(CurrentName, split_result)
    /\ it' = it + 1
    /\ UNCHANGED <<dvars, opts, precision, settings, clog, split_result, original, splits,
                   calls, module_calls, failed_at, raised, ret, cpc>>

\* a loop iteration in which convert_module returns a TensorRT module
ConvertReturns ==
    /\ AtSubmodule
    /\ IsAcc(CurrentName, split_result)
    /\ calls' = Append(calls, Invocation(CurrentName, CurrentSubmod, SettingsArg(settings[1])))
    /\ split_result' =
          [split_result EXCEPT !.split_module =
              SetAttr(@, CurrentName,
                      TrtModule(CurrentName, CurrentSubmod.size, SettingsArg(settings[1])))]
    /\ it' = it + 1
    /\ UNCHANGED <<dvars, opts, precision, settings, clog, original, splits, module_calls,
                   failed_at, raised, ret, cpc>>

\* a loop iteration in which convert_module raises: nothing catches it
ConvertRaises ==
    /\ AtSubmodule
    /\ IsAcc(CurrentName, split_result)
    /\ calls' = Append(calls, Invocation(CurrentName, CurrentSubmod, SettingsArg(settings[1])))
    /\ failed_at' = it
    /\ raised' = "ConvertError"
    /\ cpc' = "raised"
    /\ UNCHANGED <<dvars, opts, precision, settings, clog, split_result, original, splits,
                   it, module_calls, ret>>

\* return split_result.split_module
ReturnSplitModule ==
    /\ cpc = "graph"
    /\ it > Len(split_result.submodule_inputs)
    /\ ret' = "split_module"
    /\ cpc' = "returned"
    /\ UNCHANGED <<dvars, opts, precision, settings, clog, split_result, original, splits,
                   it, calls, module_calls, failed_at, raised>>

Next ==
    \/ BuildSettings
    \/ CompileModuleReturns
    \/ CompileModuleRaises
    \/ LowerAndSplit
    \/ SkipSubmodule
    \/ ConvertReturns
    \/ ConvertRaises
    \/ ReturnSplitModule

Spec == Init /\ [][Next]_vars

----------------------------------------------------------------------------
(* _compile_graph called on its own, on any SplitResult *)

\* any sequence of submodules, eligible or not in any order, of any size
Partitions ==
    UNION { [1..n -> [acc : BOOLEAN, size : 1..MaxBlockSize]] : n \in 0..MaxSubmodules }

InitGraph ==
    /\ IdleDevice
    /\ enabled_precisions = {}
    /\ pass_through_build_failures \in BOOLEAN
    /\ min_block_size \in 1..MaxBlockSize
    /\ require_full_compilation = FALSE
    /\ use_capability_partitioner = FALSE
    /\ precision \in {Float16, Float32}
    /\ settings = <<CompilationSettings(precision, min_block_size,
                                        pass_through_build_failures)>>
    /\ clog = <<>>
    /\ \E ps \in Partitions : split_result = SplitResult(ps)
    /\ original = split_result.split_module
    /\ splits = 0
    /\ it = 1
    /\ calls = <<>>
    /\ module_calls = <<>>
    /\ failed_at = 0
    /\ raised = "none"
    /\ ret = "none"
    /\ cpc = "graph"

NextGraph ==
    \/ SkipSubmodule
    \/ ConvertReturns
    \/ ConvertRaises
    \/ ReturnSplitModule

SpecGraph == InitGraph /\ [][NextGraph]_vars

----------------------------------------------------------------------------
(* The calls of Device(...) that are explored *)

Chars == {":", "0", "7", "-", "x"}

Prefixes ==
    { <<>>, Gpu, <<"G", "P", "u">>, Cuda, <<"C", "u", "d", "a">>, Dla, <<"D", "L", "A">>,
      <<"t", "p", "u">> }

Tails == UNION { [1..n -> Chars] : n \in 0..MaxTail }

Strings == { p \o t : p \in Prefixes, t \in Tails }

Keys == {"gpu_id", "dla_core", "allow_gpu_fallback"}

IdVals == { IntV(n) : n \in 0..MaxId }

FallbackVals == { Absent, BoolV(TRUE), BoolV(FALSE), IntV(1) }

Kw(g, d, f) == [k \in Keys |-> IF k = "gpu_id" THEN g ELSE IF k = "dla_core" THEN d ELSE f]

\* every combination of the three keywords
AllKwargs == { Kw(g, d, f) : g \in IdVals \cup {Absent}, d \in IdVals \cup {Absent},
                             f \in FallbackVals }

\* the keyword combinations tried together with a positional argument
SomeKwargs == { Kw(g, Absent, f) : g \in {Absent, IntV(MaxId)},
                                   f \in {Absent, BoolV(TRUE), IntV(1)} }

Calls ==
    { <<(<<>>), kw>> : kw \in AllKwargs }
    \cup { <<(<<Str(s)>>), kw>> : s \in Strings, kw \in SomeKwargs }
    \cup { <<(<<IntV(n)>>), kw>> : n \in 0..MaxId, kw \in SomeKwargs }
    \cup { <<(<<Str(Gpu \o <<":", "0">>), v>>), kw>> : v \in {IntV(0), Str(<<>>)},
                                                     kw \in SomeKwargs }

IdleCompile ==
    /\ enabled_precisions = {}
    /\ pass_through_build_failures = FALSE
    /\ min_block_size = 1
    /\ require_full_compilation = FALSE
    /\ use_capability_partitioner = FALSE
    /\ precision = "unset"
    /\ settings = <<>>
    /\ clog = <<>>
    /\ split_result = NoSplit
    /\ original = <<>>
    /\ splits = 0
    /\ it = 0
    /\ calls = <<>>
    /\ module_calls = <<>>
    /\ failed_at = 0
    /\ raised = "none"
    /\ ret = "none"
    /\ cpc = "idle"

InitDevice ==
    /\ \E c \in Calls : args = c[1] /\ kwargs = c[2]
    /\ self = ClassDefaults
    /\ dlog = <<>>
    /\ exc = "none"
    /\ dev = <<>>
    /\ dpc = "call"
    /\ IdleCompile

\* Device(*args, **kwargs)
Construct ==
    /\ dpc = "call"
    /\ LET r == DeviceInit(args, kwargs) IN
        /\ self' = r.self
        /\ dlog' = r.log
        /\ exc' = r.exc
        /\ dev' = IF r.exc = "none" THEN <<r.self>> ELSE <<>>
    /\ dpc' = "done"
    /\ UNCHANGED <<args, kwargs, cvars>>

NextDevice == Construct

SpecDevice == InitDevice /\ [][NextDevice]_vars

----------------------------------------------------------------------------
(* The documented device-string grammar  ^(gpu|cuda|dla):\d+$  (ignoring case) *)

HasPrefix(l, p) == Len(l) >= Len(p) /\ SubSeq(l, 1, Len(p)) = p

\* l is p, one colon, one or more decimal digits, nothing else
MatchesWith(l, p) ==
    /\ Len(l) > Len(p) + 1
    /\ HasPrefix(l, p)
    /\ l[Len(p) + 1] = ":"
    /\ \A i \in (Len(p) + 2)..Len(l) : l[i] \in Digits

MatchesGrammar(s) == \E p \in {Gpu, Cuda, Dla} : MatchesWith(Lower(s), p)

\* the text after the first colon
AfterColon(s) == SubSeq(s, FirstColon(s) + 1, Len(s))

\* the text before the first colon (all of s when it holds none), lower-cased
PrefixOf(s) ==
    IF FirstColon(s) = 0 THEN Lower(s) ELSE Lower(SubSeq(s, 1, FirstColon(s) - 1))

DigitChar(n) ==
    CASE n = 0 -> "0" [] n = 1 -> "1" [] n = 2 -> "2" [] n = 3 -> "3" [] n = 4 -> "4"
      [] n = 5 -> "5" [] n = 6 -> "6" [] n = 7 -> "7" [] n = 8 -> "8" [] n = 9 -> "9"

\* the decimal numeral of a natural number
RECURSIVE Format(_)
Format(n) == IF n < 10 THEN <<DigitChar(n)>> ELSE Format(n \div 10) \o <<DigitChar(n % 10)>>

\* a numeral without its leading zeros ("007" -> "7", "00" -> "0")
RECURSIVE Canonical(_)
Canonical(d) == IF Len(d) > 1 /\ Head(d) = "0" THEN Canonical(Tail(d)) ELSE d

NoKwargs == \A k \in Keys : ~Has(kwargs, k)

BadFallback == Has(kwargs, "allow_gpu_fallback") /\ ~IsBool(kwargs["allow_gpu_fallback"])

Failed == exc # "none" /\ dev = <<>>

Returned == exc = "none" /\ dev = <<self>>

----------------------------------------------------------------------------
(* Claims about Device, checked under SpecDevice *)

\* C6: construction fails, and yields no device, when more than one positional
\* argument is given; when the single positional argument is not a string; when
\* there is no positional argument and neither gpu_id nor dla_core; when the
\* positional string's prefix is none of gpu, cuda, dla; and when
\* allow_gpu_fallback is given a value that is not a bool (in either form).
C6_InvalidSpecsFail ==
    dpc = "done" =>
        /\ Len(args) > 1 => Failed
        /\ (Len(args) = 1 /\ ~IsStr(args[1])) => Failed
        /\ (Len(args) = 0 /\ ~Has(kwargs, "gpu_id") /\ ~Has(kwargs, "dla_core")) => Failed
        /\ (Len(args) = 1 /\ IsStr(args[1]) /\ PrefixOf(args[1].s) \notin {Gpu, Cuda, Dla})
              => Failed
        /\ BadFallback => Failed

\* a keyword-form DLA device whose fields were all set before the non-bool
\* allow_gpu_fallback was rejected
C6_Witness ==
    /\ dpc = "done"
    /\ args = <<>>
    /\ Has(kwargs, "dla_core") /\ Has(kwargs, "gpu_id")
    /\ kwargs["allow_gpu_fallback"] = IntV(1)
    /\ self.device_type = "DLA"
    /\ exc = "TypeError"
    /\ dev = <<>>

DlaString == Len(args) = 1 /\ IsStr(args[1]) /\ MatchesWith(Lower(args[1].s), Dla)

DlaKeyword == Len(args) = 0 /\ Has(kwargs, "dla_core")

C8_GrammarExact ==
    (dpc = "done" /\ Len(args) = 1 /\ IsStr(args[1]) /\ ~BadFallback) =>
        (exc = "none" <=> MatchesGrammar(args[1].s))

\* C9: "gpu:<n>" or "cuda:<n>" in any letter case with no keyword, or gpu_id=n
\* alone, resolves to exactly (GPU, n, -1, false) and emits no signal.
C9_GpuTarget ==
    dpc = "done" =>
        /\ (/\ Len(args) = 1 /\ IsStr(args[1]) /\ NoKwargs
            /\ \E p \in {Gpu, Cuda} : MatchesWith(Lower(args[1].s), p)) =>
              /\ Returned
              /\ self.gpu_id >= 0
              /\ Format(self.gpu_id) = Canonical(AfterColon(args[1].s))
              /\ self.device_type = "GPU" /\ self.dla_core = -1
              /\ self.allow_gpu_fallback = FALSE
              /\ dlog = <<>>
        /\ (/\ args = <<>> /\ Has(kwargs, "gpu_id")
            /\ ~Has(kwargs, "dla_core") /\ ~Has(kwargs, "allow_gpu_fallback")) =>
              /\ dev = << [device_type |-> "GPU", gpu_id |-> kwargs["gpu_id"].n,
                           dla_core |-> -1, allow_gpu_fallback |-> FALSE] >>
              /\ dlog = <<>>

\* "CUda:70" resolved to GPU 70
C9_Witness ==
    /\ dpc = "done"
    /\ args = <<Str(<<"C", "u", "d", "a", ":", "7", "0">>)>>
    /\ NoKwargs
    /\ self.device_type = "GPU"
    /\ self.gpu_id = 70
    /\ Returned

----------------------------------------------------------------------------
(* Claims about compile and _compile_graph: C1 and C3 are checked under          *)
(* SpecGraph, the others under Spec                                             *)

SplitModule == split_result.split_module

InvocationsOf(name) == { j \in 1..Len(calls) : calls[j].name = name }

Replaced(k) ==
    /\ SplitModule[k].name = original[k].name
    /\ SplitModule[k].obj.kind = "trt"
    /\ SplitModule[k].obj.of = original[k].name

Untouched(k) == SplitModule[k] = original[k]

Eligible(k) == ~StartsWith(original[k].name, split_result.non_acc_submodule_prefix)

\* C1: when _compile_graph has returned, every submodule whose name does not
\* start with the non-accelerator prefix is replaced under its own name by one
\* compiled unit and convert_module ran exactly once for it; every submodule
\* with the prefix is the object it was, and convert_module never ran for it.
C1_CompileGraphFrame ==
    (cpc = "returned" /\ ret = "split_module") =>
        /\ Len(SplitModule) = Len(original)
        /\ \A k \in 1..Len(original) :
              IF Eligible(k)
              THEN Replaced(k) /\ Cardinality(InvocationsOf(original[k].name)) = 1
              ELSE Untouched(k) /\ InvocationsOf(original[k].name) = {}

\* a returned split module with two adjacent compiled units before a fallback
\* submodule
C1_Witness ==
    /\ cpc = "returned" /\ ret = "split_module"
    /\ Len(original) = 3
    /\ Eligible(1) /\ Eligible(2) /\ ~Eligible(3)
    /\ Replaced(1) /\ Replaced(2) /\ Untouched(3)
    /\ Len(calls) = 2

\* C2 as stated: once the accelerator compiler has failed on an eligible
\* submodule, compile aborts if pass_through_build_failures is true; if it is
\* false the submodule stays in place as fallback, compile does not abort, and
\* what it returns has every other eligible submodule compiled.
C2_FailurePolicy ==
    failed_at # 0 =>
        IF pass_through_build_failures
        THEN cpc = "raised" /\ ret = "none"
        ELSE /\ cpc # "raised"
             /\ Untouched(failed_at)
             /\ cpc = "returned" =>
                   \A k \in 1..Len(original) : (Eligible(k) /\ k # failed_at) => Replaced(k)

\* C3 as stated: when convert_module's error leaves _compile_graph, no graph is
\* returned and no submodule of the split module has been replaced.
C3_NoPartialState ==
    (cpc = "raised" /\ raised = "ConvertError") =>
        /\ ret = "none"
        /\ \A k \in 1..Len(original) : Untouched(k)

\* C3 amended: when convert_module's error leaves _compile_graph, no graph is
\* returned; the eligible submodules iterated before the failing one are
\* already replaced in place by compiled units, and the failing submodule,
\* every later one and every non-accelerator submodule are as the splitter
\* left them.
C3_PartialStateOnError ==
    (cpc = "raised" /\ raised = "ConvertError") =>
        /\ ret = "none"
        /\ failed_at \in 1..Len(original)
        /\ Eligible(failed_at)
        /\ Len(SplitModule) = Len(original)
        /\ \A k \in 1..Len(original) :
              IF k < failed_at /\ Eligible(k) THEN Replaced(k) ELSE Untouched(k)

\* the error raised on the third submodule, the first one already compiled
C3_Witness ==
    /\ cpc = "raised" /\ raised = "ConvertError"
    /\ failed_at = 3
    /\ Replaced(1) /\ Untouched(2) /\ Untouched(3)
    /\ ret = "none"

\* C4 as stated: with require_full_compilation false, no submodule of fewer
\* than min_block_size nodes is handed to convert_module.
C4_SizeCoercion ==
    ~require_full_compilation =>
        \A j \in 1..Len(calls) : calls[j].size >= min_block_size

HalfTypes == {Float16, Half}
FullTypes == {Float32, Float}

\* C5: once the precision chain has run: a set holding a half type resolves
\* to half whatever else it holds; otherwise a set holding a full type resolves
\* to full; otherwise the empty set resolves to the default and logs at info
\* level; otherwise compile raises.
C5_PrecisionResolution ==
    cpc \notin {"call", "idle"} =>
        IF enabled_precisions \cap HalfTypes # {}
        THEN precision = Float16 /\ raised # "ValueError" /\ clog = <<ExperimentalWarning>>
        ELSE IF enabled_precisions \cap FullTypes # {}
        THEN precision = Float32 /\ raised # "ValueError" /\ clog = <<ExperimentalWarning>>
        ELSE IF enabled_precisions = {}
        THEN /\ precision = PRECISION
             /\ raised # "ValueError"
             /\ clog = <<ExperimentalWarning, DefaultingInfo>>
             /\ \A j \in 1..Len(clog) : clog[j].level # "error"
        ELSE /\ cpc = "raised" /\ raised = "ValueError" /\ ret = "none"
             /\ settings = <<>>

\* half wins over full
C5_Witness ==
    /\ cpc = "lower"
    /\ enabled_precisions = {Half, Float32}
    /\ precision = Float16
    /\ settings # <<>> /\ settings[1].precision = Float16

\* C10: with a non-empty precision set holding neither half nor full, compile
\* raises and neither the splitter nor a converter was ever invoked; whenever
\* the splitter or a converter was invoked the settings had been built from the
\* resolved precision, and every convert_module invocation received them.
C10_SettingsBeforeLowering ==
    /\ (enabled_precisions # {} /\ enabled_precisions \cap (HalfTypes \cup FullTypes) = {}) =>
          /\ splits = 0 /\ calls = <<>> /\ module_calls = <<>>
          /\ cpc \in {"call", "raised"}
          /\ cpc = "raised" => raised = "ValueError"
    /\ (splits > 0 \/ calls # <<>> \/ module_calls # <<>>) =>
          /\ precision # "unset"
          /\ settings = <<CompilationSettings(precision, min_block_size,
                                              pass_through_build_failures)>>
          /\ \A j \in 1..Len(calls) : calls[j].settings = settings[1]
          /\ \A j \in 1..Len(module_calls) : module_calls[j] = settings
    /\ \A k \in 1..Len(SplitModule) :
          SplitModule[k].obj.kind = "trt" => SplitModule[k].obj.built_with = settings

\* a successful call that converted two submodules with the one settings value
C10_Witness ==
    /\ cpc = "returned" /\ ret = "split_module"
    /\ Len(calls) = 2
    /\ calls[1].settings = settings[1] /\ calls[2].settings = settings[1]
    /\ settings[1].precision = PRECISION
    /\ splits = 1

====
